---- MODULE Spec2Model ----
(***************************************************************************)
(* The asynchronous task pipeline of channel-summary-hub: the two Redis    *)
(* lists filled by RedisTaskQueue.add_task (redis_queue.py), the worker    *)
(* loop that drains them (worker.py) and the stage executors               *)
(* download_audio, transcribe_audio, summarize_text and process_chain_tasks*)
(* (tasks.py), together with the rows they write to the videos and tasks   *)
(* tables (models.py).                                                     *)
(*                                                                         *)
(* A Redis list is a sequence whose index 1 is the head (left end) and     *)
(* whose last index is the tail (right end).  A text is a sequence of      *)
(* tokens.  A step of an executor is one action; a step that raises inside *)
(* the executor's try block runs the except/finally blocks in the same     *)
(* action (they touch nothing another worker can see, except in            *)
(* summarize_text, whose except block writes a row and is a step of its    *)
(* own).                                                                   *)
(***************************************************************************)
EXTENDS Integers, Sequences, FiniteSets, TLC

\* Number of payloads pushed on the two lists in one behaviour.
MaxEnqueue == 2

Workers == {"w1", "w2"}

\* The worker processes that have been started.
Started == {"w1"}

\* None in a text column or variable (texts are sequences of tokens).
NULL == <<"None">>

\* None where a primary key is expected (keys start at 1).
NoId == 0

\* Primary keys / youtube ids a payload may carry; only ExistingVideos have a row.
VideoRefs == {1, 2}
ExistingVideos == {1}

\* Names handed to add_task: the two the worker knows, and the one app.py
\* enqueues when no captions are available.
TaskNames == {"summarize_text", "process_chain_tasks", "download_audio"}

Priorities == {"high", "HIGH", "low"}

\* What the transcription service may return for an audio file.
TranscriptionOutputs == {<< >>, <<"a", "b">>}

RECURSIVE numeral(_)
\* A number written in decimal digits, one character each.
numeral(i) ==
    LET digit == <<"0", "1", "2", "3", "4", "5", "6", "7", "8", "9">>[(i % 10) + 1]
    IN IF i < 10 THEN <<digit>> ELSE Append(numeral(i \div 10), digit)

\* What the i-th chat-completion call of a run may return for its chunk: a JSON
\* object with summary and points (written s<i> and p<i>: the answers to
\* different calls are different texts), a body json.loads rejects, or an API
\* error.
ModelResponses(i) ==
    { [kind |-> "json", summary |-> <<"s">> \o numeral(i), points |-> <<"p">> \o numeral(i)],
      [kind |-> "malformed", summary |-> << >>, points |-> << >>],
      [kind |-> "error", summary |-> << >>, points |-> << >>] }

\* A JSON object that has a summary (written t<i>) and no "points" key:
\* output_json.get("points", "") then gives the empty string.
WithoutPoints(i) ==
    [kind |-> "json", summary |-> <<"t">> \o numeral(i), points |-> << >>]

\* Number of segment files ffmpeg may cut an oversized audio file into.
MaxSegments == 2

\* Length of the short caption texts (the long ones are listed in LongTexts).
MaxTextLen == 4

\* Number of session.commit() calls that fail (the database being unreachable
\* or refusing the transaction) in one behaviour.
MaxCommitFaults == 1

VARIABLES
    queue_high,   \* Redis list "task_queue_high"
    queue_low,    \* Redis list "task_queue_low"
    sent,         \* number of payloads pushed so far
    videos,       \* videos table: id -> row
    tasks,        \* tasks table: committed DBTask rows, in insertion order
    blobs,        \* object store: video ids whose {video_id}.mp3 exists
    pc,           \* each worker's position
    task_json,    \* the payload a worker holds
    chain,        \* locals of process_chain_tasks
    loc,          \* locals of the running stage executor
    sessions,     \* number of sessions each worker holds open
    run,          \* history of the handling of the worker's current payload
    popped,       \* what the brpop of a worker found and took, until it is parsed
    env,          \* what the code finds outside and never changes: the credentials in
                  \* the process environment, whether the audio is over 20 MB, and
                  \* whether the deployed model may leave "points" out of its answer
    faults,       \* number of commits that have failed so far
    called,       \* where add_task is observed: its priority argument, while its
                  \* push is the latest operation on the two lists
    taken         \* how many times brpop has returned each pushed payload

vars == <<queue_high, queue_low, sent, videos, tasks, blobs, pc, task_json,
          chain, loc, sessions, run, popped, env, faults, called, taken>>

\* Outcomes of session.commit(): TRUE commits, FALSE raises.
CommitOutcomes == IF faults < MaxCommitFaults THEN {TRUE, FALSE} ELSE {TRUE}

\* The outcomes of a step whose commit is reached only under a condition.
commits_if(reached) == IF reached THEN CommitOutcomes ELSE {TRUE}

\* The fault count after a commit with the given outcome.
commit(committed) == faults' = IF committed THEN faults ELSE faults + 1

----------------------------------------------------------------------------
(* redis_queue.py *)

\* The latest operation on the lists is not a push by add_task.
NotCalled == ""

\* Mutant of lower: the priority is compared as given.
lower_as_given(priority) == priority

\* str.lower() on the priority argument.
lower(priority) == IF priority = "HIGH" THEN "high" ELSE priority

\* json.dumps of {"task":..., "args":..., "kwargs":...}; seq identifies the push.
json_dumps(task_func_name, arg, n) ==
    [valid |-> TRUE, task |-> task_func_name, arg |-> arg, seq |-> n]

\* json.loads: the task dict, or an error for a payload that is not JSON.
json_loads(payload) ==
    IF payload.valid
    THEN [ok |-> TRUE, task |-> payload.task, arg |-> payload.arg]
    ELSE [ok |-> FALSE, task |-> "", arg |-> 0]

\* r.rpush(key, value): append at the tail.
rpush(list, value) == Append(list, value)

add_task(task_func_name, priority, arg) ==
    /\ sent < MaxEnqueue
    /\ LET payload == json_dumps(task_func_name, arg, sent + 1) IN
         IF lower(priority) = "high"
         THEN /\ queue_high' = rpush(queue_high, payload)
              /\ UNCHANGED queue_low
         ELSE /\ queue_low' = rpush(queue_low, payload)
              /\ UNCHANGED queue_high
    /\ sent' = sent + 1
    /\ UNCHANGED <<videos, tasks, blobs, pc, task_json, chain, loc, sessions, run, popped>>
    /\ UNCHANGED <<faults, env, taken>>

\* Another Redis client pushes bytes that are not JSON on one of the lists.
ForeignPush(key) ==
    /\ sent < MaxEnqueue
    /\ LET payload == [valid |-> FALSE, task |-> "", arg |-> 0, seq |-> sent + 1] IN
         IF key = "task_queue_high"
         THEN /\ queue_high' = rpush(queue_high, payload)
              /\ UNCHANGED queue_low
         ELSE /\ queue_low' = rpush(queue_low, payload)
              /\ UNCHANGED queue_high
    /\ sent' = sent + 1
    /\ called' = NotCalled
    /\ UNCHANGED <<videos, tasks, blobs, pc, task_json, chain, loc, sessions, run, popped>>
    /\ UNCHANGED <<faults, env, taken>>

----------------------------------------------------------------------------
(* worker.py *)

NoTask == [valid |-> FALSE, task |-> "", arg |-> 0, seq |-> 0]

\* Keys of task_mapping.
task_mapping == {"summarize_text", "process_chain_tasks"}

NoRun ==
    [handled |-> "none", chain |-> FALSE,
     fetch |-> "none", transcribe |-> "none", summarize |-> "none",
     calls |-> 0, empty_seen |-> FALSE, video |-> NoId,
     asked |-> << >>, answers |-> << >>, bad_at |-> 0, before |-> << >>,
     heard |-> << >>, writes |-> 0,
     attempts |-> [fetch |-> 0, transcribe |-> 0, summarize |-> 0]]

NoPop == [seq |-> 0, key |-> "", valid |-> FALSE, high_len |-> 0, left_behind |-> {}]

NoChain == [active |-> FALSE, video_id |-> 0]

NoLoc ==
    [db_task |-> 0, db_video |-> FALSE, video |-> 0, transcript_text |-> << >>,
     chunks |-> << >>, idx |-> 0, summaries |-> << >>, points_list |-> << >>,
     e |-> NULL, split_files |-> << >>, sf |-> 0, loaded |-> <<NULL, NULL>>]

\* The element a pop takes from a non-empty list: RPOP takes the tail.
pop_index(list) == Len(list)

\* Mutant of remove_at: the payload is read and left on the list.
remove_at_peek(list, i) == list

\* The list without its i-th element.
remove_at(list, i) == SubSeq(list, 1, i - 1) \o SubSeq(list, i + 1, Len(list))

\* Mutant of brpop_key: the keys given in the other order.
brpop_key_low_first ==
    IF queue_low # << >> THEN "task_queue_low" ELSE "task_queue_high"

\* The key BRPOP serves: the first non-empty list in the order the keys are given.
brpop_key == IF queue_high # << >> THEN "task_queue_high" ELSE "task_queue_low"

\* r.brpop([queue_high, queue_low], timeout=10) returning a payload.
Dequeue(w) ==
    /\ pc[w] = "brpop"
    /\ queue_high # << >> \/ queue_low # << >>
    /\ LET key == brpop_key
           list == IF key = "task_queue_high" THEN queue_high ELSE queue_low
           i == pop_index(list)
       IN /\ task_json' = [task_json EXCEPT ![w] = list[i]]
          /\ IF key = "task_queue_high"
             THEN /\ queue_high' = remove_at(queue_high, i)
                  /\ UNCHANGED queue_low
             ELSE /\ queue_low' = remove_at(queue_low, i)
                  /\ UNCHANGED queue_high
          /\ taken' = [taken EXCEPT ![list[i].seq] = @ + 1]
          /\ popped' = [popped EXCEPT ![w] =
                 [seq |-> list[i].seq, key |-> key, valid |-> list[i].valid,
                  high_len |-> Len(queue_high),
                  left_behind |-> {list[j].seq :
                                      j \in {k \in 1..Len(list) : k # i /\ list[k].valid}}]]
    /\ pc' = [pc EXCEPT ![w] = "dispatch"]
    /\ run' = [run EXCEPT ![w] = NoRun]
    /\ called' = NotCalled
    /\ UNCHANGED <<sent, videos, tasks, blobs, chain, loc, sessions>>
    /\ UNCHANGED <<faults, env>>

\* brpop times out on two empty lists: the worker logs and sleeps.
Timeout(w) ==
    /\ pc[w] = "brpop"
    /\ queue_high = << >> /\ queue_low = << >>
    /\ pc' = [pc EXCEPT ![w] = "sleep"]
    /\ run' = [run EXCEPT ![w] = [NoRun EXCEPT !.handled = "timeout"]]
    /\ UNCHANGED <<queue_high, queue_low, sent, videos, tasks, blobs, task_json,
                   chain, loc, sessions, popped>>
    /\ UNCHANGED <<faults, env, called, taken>>

\* time.sleep(1) ends; back to the top of the loop.
Wake(w) ==
    /\ pc[w] = "sleep"
    /\ pc' = [pc EXCEPT ![w] = "brpop"]
    /\ run' = [run EXCEPT ![w] = NoRun]
    /\ UNCHANGED <<queue_high, queue_low, sent, videos, tasks, blobs, task_json,
                   chain, loc, sessions, popped>>
    /\ UNCHANGED <<faults, env, called, taken>>

\* Where the worker goes when the code under its try block raises.
on_exception == "caught"

\* Mutant of on_unknown: the worker leaves its loop on an unknown name.
on_unknown_stop == "off"

\* Where the worker goes when task_mapping has no entry for the name: it logs
\* "Unknown task" and the try block ends.
on_unknown == "handled"

\* The try block up to the call: json.loads, the lookup in task_mapping, and
\* either the call of the function or the "Unknown task" log.
Dispatch(w) ==
    /\ pc[w] = "dispatch"
    /\ LET task == json_loads(task_json[w]) IN
         IF ~task.ok
         THEN /\ pc' = [pc EXCEPT ![w] = on_exception]
              /\ run' = [run EXCEPT ![w].handled = "unparseable"]
              /\ UNCHANGED <<chain, loc>>
         ELSE IF task.task \notin task_mapping
         THEN /\ pc' = [pc EXCEPT ![w] = on_unknown]
              /\ run' = [run EXCEPT ![w].handled = "unknown"]
              /\ UNCHANGED <<chain, loc>>
         ELSE IF task.task = "process_chain_tasks"
         THEN /\ pc' = [pc EXCEPT ![w] = "da_task"]
              /\ chain' = [chain EXCEPT ![w] = [active |-> TRUE, video_id |-> task.arg]]
              /\ loc' = [loc EXCEPT ![w] = [NoLoc EXCEPT !.video = task.arg]]
              /\ run' = [run EXCEPT ![w].chain = TRUE, ![w].fetch = "running",
                                    ![w].video = task.arg,
                                    ![w].attempts.fetch = @ + 1]
         ELSE /\ pc' = [pc EXCEPT ![w] = "st_start"]
              /\ loc' = [loc EXCEPT ![w] = [NoLoc EXCEPT !.video = task.arg]]
              /\ run' = [run EXCEPT ![w].summarize = "running", ![w].video = task.arg,
                                    ![w].attempts.summarize = @ + 1]
              /\ UNCHANGED chain
    /\ task_json' = [task_json EXCEPT ![w] = NoTask]
    /\ popped' = [popped EXCEPT ![w] = NoPop]
    /\ UNCHANGED <<queue_high, queue_low, sent, videos, tasks, blobs, sessions>>
    /\ UNCHANGED <<faults, env, called, taken>>

\* Mutant of after_except: the except block re-raises and the process ends.
after_except_stop == "off"

\* Where the worker goes once its except block has logged the error.
after_except == "brpop"

\* except Exception as e: logger.error(...); the loop goes on.
WorkerCatch(w) ==
    /\ pc[w] = "caught"
    /\ pc' = [pc EXCEPT ![w] = after_except]
    /\ run' = [run EXCEPT ![w] = NoRun]
    /\ UNCHANGED <<queue_high, queue_low, sent, videos, tasks, blobs, task_json,
                   chain, loc, sessions, popped>>
    /\ UNCHANGED <<faults, env, called, taken>>

\* The try block ended without an exception: next pass of while True.
Loop(w) ==
    /\ pc[w] = "handled"
    /\ pc' = [pc EXCEPT ![w] = "brpop"]
    /\ run' = [run EXCEPT ![w] = NoRun]
    /\ UNCHANGED <<queue_high, queue_low, sent, videos, tasks, blobs, task_json,
                   chain, loc, sessions, popped>>
    /\ UNCHANGED <<faults, env, called, taken>>

----------------------------------------------------------------------------
(* models.py: rows of the tasks and videos tables *)

\* A DBTask row; by is the worker whose running invocation inserted it, "-" once
\* that invocation has ended.
DBTask(video_id, task_type, status, error_message, w) ==
    [video_id |-> video_id, task_type |-> task_type, status |-> status,
     error_message |-> error_message, by |-> w]

\* Mutant of insertable: the table takes a row for any video_id.
insertable_any(video_id) == TRUE

\* tasks.video_id is a non-null foreign key on videos.id: the INSERT of a row
\* whose video_id is None or names no video fails at commit.
insertable(video_id) == video_id \in DOMAIN videos

\* The rows once the invocation of w has returned or raised.
ended(rows, w) ==
    [i \in 1..Len(rows) |->
        IF rows[i].by = w THEN [rows[i] EXCEPT !.by = "-"] ELSE rows[i]]

\* Mutant of flushed: the value is added to what the column holds.
flushed_appended(current, loaded, value) ==
    IF current = NULL THEN value ELSE current \o value

\* What session.commit() leaves in a column of a row the session has loaded,
\* after an assignment of value to the attribute: the flush writes the column
\* in its UPDATE only when the value differs from the one it loaded.
flushed(current, loaded, value) == IF value = loaded THEN current ELSE value

\* Mutant of truthy: every value passes.
truthy_always(text) == TRUE

\* A Python string (or None) is truthy when it is neither None nor empty.
truthy(text) == text # NULL /\ text # << >>

----------------------------------------------------------------------------
(* tasks.py: download_audio *)

\* Mutant of after_download: download_audio is called again when it has returned.
after_download_again == "da_task"

\* Where process_chain_tasks goes on when download_audio has returned, whatever
\* became of the download: to its read of the Video row.
after_download == "pc_read"

\* except: session.rollback(); finally: session.close(); the function returns.
da_except(w, rows) ==
    /\ tasks' = ended(rows, w)
    /\ pc' = [pc EXCEPT ![w] = after_download]
    /\ loc' = [loc EXCEPT ![w] = NoLoc]
    /\ run' = [run EXCEPT ![w].fetch = "failed_returned"]

\* SessionLocal(); the IN_PROGRESS row is added and committed.
DA_Task(w) ==
    /\ pc[w] = "da_task"
    /\ \E committed \in CommitOutcomes :
         /\ commit(committed)
         /\ UNCHANGED <<env, called, taken>>
         /\ IF committed /\ insertable(loc[w].video)
            THEN /\ tasks' = Append(tasks,
                       DBTask(loc[w].video, "DOWNLOAD_AUDIO", "IN_PROGRESS", NULL, w))
                 /\ loc' = [loc EXCEPT ![w].db_task = Len(tasks) + 1]
                 /\ pc' = [pc EXCEPT ![w] = "da_fetch"]
                 /\ sessions' = [sessions EXCEPT ![w] = @ + 1]
                 /\ UNCHANGED run
            ELSE /\ da_except(w, tasks)
                 /\ UNCHANGED sessions
    /\ UNCHANGED <<queue_high, queue_low, sent, videos, blobs, task_json, chain, popped>>

\* yt_dlp download, the check that the mp3 exists, and the upload of the blob.
DA_Fetch(w) ==
    /\ pc[w] = "da_fetch"
    /\ \E uploaded \in BOOLEAN :
         IF uploaded
         THEN /\ blobs' = blobs \cup {loc[w].video}
              /\ pc' = [pc EXCEPT ![w] = "da_video"]
              /\ UNCHANGED <<tasks, loc, run, sessions>>
         ELSE /\ da_except(w, tasks)
              /\ sessions' = [sessions EXCEPT ![w] = @ - 1]
              /\ UNCHANGED blobs
    /\ UNCHANGED <<queue_high, queue_low, sent, videos, task_json, chain, popped>>
    /\ UNCHANGED <<faults, env, called, taken>>

\* Mutant of with_audio_url: the row is replaced by one that holds only the url.
with_audio_url_only(db_video, url) ==
    [audio_url |-> url, transcript_text |-> NULL,
     summary_text |-> NULL, final_points |-> NULL]

\* db_video.audio_url = blob_client.url; session.commit(): the row with its
\* audio_url column written.
with_audio_url(db_video, url) == [db_video EXCEPT !.audio_url = flushed(@, @, url)]

\* The Video row is read and, when found, its audio_url is set and committed.
DA_Video(w) ==
    /\ pc[w] = "da_video"
    /\ \E committed \in commits_if(loc[w].video \in DOMAIN videos) :
         /\ commit(committed)
         /\ UNCHANGED <<env, called, taken>>
         /\ IF loc[w].video \notin DOMAIN videos
            THEN /\ pc' = [pc EXCEPT ![w] = "da_complete"]
                 /\ UNCHANGED <<videos, tasks, loc, run, sessions>>
            ELSE IF committed
            THEN /\ videos' = [videos EXCEPT
                       ![loc[w].video] = with_audio_url(@, <<"blob_url">>)]
                 /\ pc' = [pc EXCEPT ![w] = "da_complete"]
                 /\ UNCHANGED <<tasks, loc, run, sessions>>
            ELSE /\ da_except(w, tasks)
                 /\ sessions' = [sessions EXCEPT ![w] = @ - 1]
                 /\ UNCHANGED videos
    /\ UNCHANGED <<queue_high, queue_low, sent, blobs, task_json, chain, popped>>

\* db_task.status = "COMPLETED" is committed and the function returns.
DA_Complete(w) ==
    /\ pc[w] = "da_complete"
    /\ \E committed \in CommitOutcomes :
         /\ commit(committed)
         /\ UNCHANGED <<env, called, taken>>
         /\ IF committed
            THEN /\ tasks' = ended([tasks EXCEPT ![loc[w].db_task].status = "COMPLETED"], w)
                 /\ pc' = [pc EXCEPT ![w] = after_download]
                 /\ loc' = [loc EXCEPT ![w] = NoLoc]
                 /\ run' = [run EXCEPT ![w].fetch = "ok"]
            ELSE da_except(w, tasks)
    /\ sessions' = [sessions EXCEPT ![w] = @ - 1]
    /\ UNCHANGED <<queue_high, queue_low, sent, videos, blobs, task_json, chain, popped>>

----------------------------------------------------------------------------
(* tasks.py: process_chain_tasks *)

\* After download_audio has returned: the Video row is read in a session of its
\* own; with no row the function returns; with an audio_url transcribe_audio is
\* called; without one it is skipped and summarize_text is called.
PC_Read(w) ==
    /\ pc[w] = "pc_read"
    /\ LET video_id == chain[w].video_id IN
         IF video_id \notin DOMAIN videos
         THEN /\ pc' = [pc EXCEPT ![w] = "handled"]
              /\ chain' = [chain EXCEPT ![w] = NoChain]
              /\ run' = [run EXCEPT ![w].handled = "executed"]
              /\ UNCHANGED loc
         ELSE IF truthy(videos[video_id].audio_url)
         THEN /\ pc' = [pc EXCEPT ![w] = "ta_start"]
              /\ loc' = [loc EXCEPT ![w] = [NoLoc EXCEPT !.video = video_id]]
              /\ run' = [run EXCEPT ![w].transcribe = "running",
                                    ![w].attempts.transcribe = @ + 1]
              /\ UNCHANGED chain
         ELSE /\ pc' = [pc EXCEPT ![w] = "st_start"]
              /\ loc' = [loc EXCEPT ![w] = [NoLoc EXCEPT !.video = video_id]]
              /\ run' = [run EXCEPT ![w].summarize = "running",
                                    ![w].attempts.summarize = @ + 1]
              /\ UNCHANGED chain
    /\ UNCHANGED <<queue_high, queue_low, sent, videos, tasks, blobs, task_json,
                   sessions, popped>>
    /\ UNCHANGED <<faults, env, called, taken>>

----------------------------------------------------------------------------
(* tasks.py: transcribe_audio *)

\* An exception that leaves the function: it unwinds process_chain_tasks too and
\* reaches the worker's try block.
ta_raise(w) ==
    /\ pc' = [pc EXCEPT ![w] = on_exception]
    /\ chain' = [chain EXCEPT ![w] = NoChain]
    /\ loc' = [loc EXCEPT ![w] = NoLoc]
    /\ run' = [run EXCEPT ![w].transcribe = "failed_raised", ![w].handled = "exception",
                          ![w].heard = << >>, ![w].writes = 0]

\* except: session.rollback(); finally: session.close(); the function returns and
\* process_chain_tasks goes on to call summarize_text.
ta_except(w, rows) ==
    /\ tasks' = ended(rows, w)
    /\ pc' = [pc EXCEPT ![w] = "st_start"]
    /\ loc' = [loc EXCEPT ![w] = [NoLoc EXCEPT !.video = chain[w].video_id]]
    /\ run' = [run EXCEPT ![w].transcribe = "failed_returned", ![w].summarize = "running",
                          ![w].heard = << >>, ![w].writes = 0,
                          ![w].attempts.summarize = @ + 1]
    /\ UNCHANGED chain

\* SessionLocal(); OpenAI() before the try block (it raises when OPENAI_API_KEY
\* is not set, leaving the session open); then the IN_PROGRESS row is added and committed.
TA_Start(w) ==
    /\ pc[w] = "ta_start"
    /\ \E committed \in commits_if(env.openai) :
         /\ commit(committed)
         /\ UNCHANGED <<env, called, taken>>
         /\ IF ~env.openai
            THEN /\ ta_raise(w)
                 /\ sessions' = [sessions EXCEPT ![w] = @ + 1]
                 /\ UNCHANGED tasks
            ELSE IF committed /\ insertable(loc[w].video)
            THEN /\ tasks' = Append(tasks,
                       DBTask(loc[w].video, "TRANSCRIBE", "IN_PROGRESS", NULL, w))
                 /\ loc' = [loc EXCEPT ![w].db_task = Len(tasks) + 1]
                 /\ pc' = [pc EXCEPT ![w] = "ta_audio"]
                 /\ sessions' = [sessions EXCEPT ![w] = @ + 1]
                 /\ UNCHANGED <<run, chain>>
            ELSE /\ ta_except(w, tasks)
                 /\ UNCHANGED sessions
    /\ UNCHANGED <<queue_high, queue_low, sent, videos, blobs, task_json, popped>>

RECURSIVE decimal(_)
\* The decimal digits of a number.
decimal(i) == IF i < 10 THEN <<i>> ELSE Append(decimal(i \div 10), i % 10)

\* "split_%03d.mp3" % i, as the digits that tell the names apart: at least
\* three of them, padded with zeros on the left.
split_pattern(i) ==
    IF Len(decimal(i)) >= 3 THEN decimal(i)
    ELSE [k \in 1..(3 - Len(decimal(i))) |-> 0] \o decimal(i)

\* The order of Python strings: a < b.
str_less(a, b) ==
    \/ \E k \in 1..Len(a) :
          /\ k <= Len(b)
          /\ SubSeq(a, 1, k - 1) = SubSeq(b, 1, k - 1)
          /\ a[k] < b[k]
    \/ Len(a) < Len(b) /\ a = SubSeq(b, 1, Len(a))

\* sorted(names): the names in ascending order.
sorted(names) ==
    [k \in 1..Cardinality(names) |->
        CHOOSE a \in names : Cardinality({b \in names : str_less(b, a)}) = k - 1]

\* The segment (counted from 0 in temporal order) ffmpeg wrote under a name.
segment_in(name) == CHOOSE i \in 0..(MaxSegments - 1) : split_pattern(i) = name

\* The blob is downloaded and its size measured.  A file of at most 20 MB is
\* transcribed in one call; a larger one is cut by ffmpeg into segment files,
\* which are listed with glob and sorted by name.
TA_Audio(w) ==
    /\ pc[w] = "ta_audio"
    /\ \/ /\ loc[w].video \in blobs
          /\ ~env.over_20mb
          /\ \E transcription \in TranscriptionOutputs :
               loc' = [loc EXCEPT ![w].transcript_text = transcription]
          /\ pc' = [pc EXCEPT ![w] = "ta_video"]
          /\ UNCHANGED <<tasks, run, chain, sessions>>
       \/ /\ loc[w].video \in blobs
          /\ env.over_20mb
          /\ \E n \in 1..MaxSegments :
               loc' = [loc EXCEPT
                   ![w].split_files = sorted({split_pattern(i) : i \in 0..(n - 1)}),
                   ![w].sf = 1,
                   ![w].transcript_text = << >>]
          /\ pc' = [pc EXCEPT ![w] = "ta_segment"]
          /\ UNCHANGED <<tasks, run, chain, sessions>>
       \/ /\ ta_except(w, tasks)
          /\ sessions' = [sessions EXCEPT ![w] = @ - 1]
    /\ UNCHANGED <<queue_high, queue_low, sent, videos, blobs, task_json, popped>>
    /\ UNCHANGED <<faults, env, called, taken>>

\* One pass of the loop over split_files: the segment file is transcribed and
\* its text and a newline are added to transcript_text.
TA_Segment(w) ==
    /\ pc[w] = "ta_segment"
    /\ \/ /\ \E transcription \in TranscriptionOutputs :
               /\ loc' = [loc EXCEPT
                      ![w].transcript_text = @ \o transcription \o <<"\n">>,
                      ![w].sf = @ + 1]
               /\ run' = [run EXCEPT ![w].heard = Append(@,
                      [segment |-> segment_in(loc[w].split_files[loc[w].sf]),
                       text |-> transcription])]
          /\ pc' = [pc EXCEPT ![w] =
                      IF loc[w].sf = Len(loc[w].split_files) THEN "ta_video"
                      ELSE "ta_segment"]
          /\ UNCHANGED <<tasks, chain, sessions>>
       \/ /\ ta_except(w, tasks)
          /\ sessions' = [sessions EXCEPT ![w] = @ - 1]
    /\ UNCHANGED <<queue_high, queue_low, sent, videos, blobs, task_json, popped>>
    /\ UNCHANGED <<faults, env, called, taken>>

\* The Video row is read and, when found, its transcript_text is set and committed.
TA_Video(w) ==
    /\ pc[w] = "ta_video"
    /\ \E committed \in commits_if(loc[w].video \in DOMAIN videos) :
         /\ commit(committed)
         /\ UNCHANGED <<env, called, taken>>
         /\ IF loc[w].video \notin DOMAIN videos
            THEN /\ pc' = [pc EXCEPT ![w] = "ta_complete"]
                 /\ UNCHANGED <<videos, tasks, loc, run, chain, sessions>>
            ELSE IF committed
            THEN /\ videos' = [videos EXCEPT
                       ![loc[w].video].transcript_text =
                           flushed(@, @, loc[w].transcript_text)]
                 /\ pc' = [pc EXCEPT ![w] = "ta_complete"]
                 /\ run' = [run EXCEPT ![w].writes = @ + 1]
                 /\ UNCHANGED <<tasks, loc, chain, sessions>>
            ELSE /\ ta_except(w, tasks)
                 /\ sessions' = [sessions EXCEPT ![w] = @ - 1]
                 /\ UNCHANGED videos
    /\ UNCHANGED <<queue_high, queue_low, sent, blobs, task_json, popped>>

\* db_task.status = "COMPLETED" is committed; the function returns and
\* process_chain_tasks calls summarize_text.
TA_Complete(w) ==
    /\ pc[w] = "ta_complete"
    /\ \E committed \in CommitOutcomes :
         /\ commit(committed)
         /\ UNCHANGED <<env, called, taken>>
         /\ IF committed
            THEN /\ tasks' = ended([tasks EXCEPT ![loc[w].db_task].status = "COMPLETED"], w)
                 /\ pc' = [pc EXCEPT ![w] = "st_start"]
                 /\ loc' = [loc EXCEPT ![w] = [NoLoc EXCEPT !.video = chain[w].video_id]]
                 /\ run' = [run EXCEPT ![w].transcribe = "ok", ![w].summarize = "running",
                                       ![w].heard = << >>, ![w].writes = 0,
                                       ![w].attempts.summarize = @ + 1]
                 /\ UNCHANGED chain
            ELSE ta_except(w, tasks)
    /\ sessions' = [sessions EXCEPT ![w] = @ - 1]
    /\ UNCHANGED <<queue_high, queue_low, sent, videos, blobs, task_json, popped>>

----------------------------------------------------------------------------
(* tasks.py: summarize_text *)

RECURSIVE join_without_separator(_, _)
\* Mutant of join: the parts are concatenated with nothing between them.
join_without_separator(parts, sep) ==
    IF parts = << >> THEN << >>
    ELSE parts[1] \o join_without_separator(Tail(parts), sep)

RECURSIVE join(_, _)
\* sep.join(parts)
join(parts, sep) ==
    IF parts = << >> THEN << >>
    ELSE IF Len(parts) = 1 THEN parts[1]
    ELSE parts[1] \o sep \o join(Tail(parts), sep)

\* The arguments of CharacterTextSplitter(chunk_size=1000, chunk_overlap=100) and
\* its default separator, a blank line.
chunk_size == 1000
chunk_overlap == 100
separator == <<"\n", "\n">>

\* The characters str.strip() removes.
Whitespace == {" ", "\n"}

RECURSIVE lstrip(_)
lstrip(text) ==
    IF text # << >> /\ Head(text) \in Whitespace THEN lstrip(Tail(text)) ELSE text

RECURSIVE rstrip(_)
rstrip(text) ==
    IF text # << >> /\ text[Len(text)] \in Whitespace
    THEN rstrip(SubSeq(text, 1, Len(text) - 1))
    ELSE text

\* str.strip()
strip(text) == rstrip(lstrip(text))

\* The positions where the separator occurs in the text.
separator_at(text) ==
    {i \in 1..(Len(text) - 1) : text[i] = separator[1] /\ text[i + 1] = separator[2]}

RECURSIVE re_split(_)
\* re.split(separator, text): the pieces between the occurrences of the
\* separator, matched from the left without overlap; empty pieces included.
re_split(text) ==
    LET at == separator_at(text) IN
    IF at = {} THEN <<text>>
    ELSE LET i == CHOOSE j \in at : \A k \in at : j <= k
         IN <<SubSeq(text, 1, i - 1)>> \o re_split(SubSeq(text, i + 2, Len(text)))

\* TextSplitter._join_docs: the pieces joined by the separator and stripped
\* (an empty result stands for None).
join_docs(docs) == strip(join(docs, separator))

RECURSIVE drop_front(_, _, _)
\* The while loop of _merge_splits: pieces leave the front of current_doc until
\* what remains fits in chunk_overlap and leaves room for the next piece.
drop_front(current_doc, total, len) ==
    IF \/ total > chunk_overlap
       \/ /\ total + len + (IF Len(current_doc) > 0 THEN Len(separator) ELSE 0) > chunk_size
          /\ total > 0
    THEN drop_front(Tail(current_doc),
                    total - (Len(current_doc[1])
                             + (IF Len(current_doc) > 1 THEN Len(separator) ELSE 0)),
                    len)
    ELSE [current_doc |-> current_doc, total |-> total]

RECURSIVE merge_splits(_, _, _, _)
\* TextSplitter._merge_splits: pieces are collected into current_doc until the
\* next one would take it past chunk_size; then current_doc becomes a chunk.
merge_splits(splits, docs, current_doc, total) ==
    IF splits = << >>
    THEN IF join_docs(current_doc) = << >> THEN docs
         ELSE Append(docs, join_docs(current_doc))
    ELSE LET d == Head(splits)
             full == /\ total + Len(d)
                           + (IF Len(current_doc) > 0 THEN Len(separator) ELSE 0) > chunk_size
                     /\ Len(current_doc) > 0
             docs1 == IF full /\ join_docs(current_doc) # << >>
                      THEN Append(docs, join_docs(current_doc))
                      ELSE docs
             kept == IF full THEN drop_front(current_doc, total, Len(d))
                     ELSE [current_doc |-> current_doc, total |-> total]
         IN merge_splits(Tail(splits), docs1, Append(kept.current_doc, d),
                         kept.total + Len(d)
                           + (IF Len(kept.current_doc) > 0 THEN Len(separator) ELSE 0))

\* CharacterTextSplitter.split_text: the text is cut at the blank lines, empty
\* pieces are dropped and the rest is merged into chunks.
split_text(text) ==
    merge_splits(SelectSeq(re_split(text), LAMBDA piece : piece # << >>), << >>, << >>, 0)

\* The function returns to its caller; process_chain_tasks then logs and returns
\* to the worker as well.
st_return(w, outcome) ==
    /\ pc' = [pc EXCEPT ![w] = "handled"]
    /\ chain' = [chain EXCEPT ![w] = NoChain]
    /\ loc' = [loc EXCEPT ![w] = NoLoc]
    /\ run' = [run EXCEPT ![w].summarize = outcome, ![w].handled = "executed"]

\* An exception that leaves the function (and process_chain_tasks, when it is the
\* caller) and reaches the worker's try block.
st_raise(w, seen) ==
    /\ pc' = [pc EXCEPT ![w] = on_exception]
    /\ chain' = [chain EXCEPT ![w] = NoChain]
    /\ loc' = [loc EXCEPT ![w] = NoLoc]
    /\ run' = [run EXCEPT ![w].summarize = "failed_raised", ![w].handled = "exception",
                          ![w].empty_seen = seen]

\* Mutant of st_fail: the failure is logged and the results so far are saved.
st_fail_saves(w, found, e) ==
    /\ pc' = [pc EXCEPT ![w] = "st_save"]
    /\ loc' = [loc EXCEPT ![w].db_video = found, ![w].e = e]

\* An exception inside the try block: control moves to the except block.
st_fail(w, found, e) ==
    /\ pc' = [pc EXCEPT ![w] = "st_except"]
    /\ loc' = [loc EXCEPT ![w].db_video = found, ![w].e = e]

\* Mutant of transcript_missing: only None is rejected ("is None").
transcript_missing_none_only(transcript_text) == transcript_text = NULL

\* The check of the transcript before any work: an absent or empty transcript raises.
transcript_missing(transcript_text) == ~truthy(transcript_text)

\* AzureOpenAI(...) before the try block (it raises when the Azure credentials
\* are not set);
\* SessionLocal(); the Video row is looked up and its transcript checked; the
\* IN_PROGRESS row is added and committed; the row, expired by the commit, is
\* loaded again when its transcript is read; the transcript is split.
ST_Start(w) ==
    /\ pc[w] = "st_start"
    /\ LET video == loc[w].video
           found == video \in DOMAIN videos
           empty == found /\ ~truthy(videos[video].transcript_text)
       IN \E committed \in commits_if(env.azure_openai /\ found /\ ~empty) :
         /\ commit(committed)
         /\ UNCHANGED <<env, called, taken>>
         /\ IF ~env.azure_openai
            THEN /\ st_raise(w, empty)
                 /\ UNCHANGED <<tasks, sessions>>
            ELSE /\ sessions' = [sessions EXCEPT ![w] = @ + 1]
                 /\ run' = [run EXCEPT
                       ![w].empty_seen = empty,
                       ![w].before = IF found
                                     THEN <<videos[video].summary_text,
                                            videos[video].final_points>>
                                     ELSE << >>]
                 /\ UNCHANGED chain
                 /\ IF ~found
                    THEN /\ st_fail(w, FALSE, <<"Video record not found">>)
                         /\ UNCHANGED tasks
                    ELSE IF transcript_missing(videos[video].transcript_text)
                    THEN /\ st_fail(w, TRUE, <<"Transcript text not found">>)
                         /\ UNCHANGED tasks
                    ELSE IF committed
                    THEN LET chunks == split_text(videos[video].transcript_text) IN
                         /\ tasks' = Append(tasks,
                               DBTask(video, "SUMMARIZE", "IN_PROGRESS", NULL, w))
                         /\ loc' = [loc EXCEPT ![w].db_video = TRUE,
                                               ![w].db_task = Len(tasks) + 1,
                                               ![w].loaded = <<videos[video].summary_text,
                                                               videos[video].final_points>>,
                                               ![w].chunks = chunks,
                                               ![w].idx = 1]
                         /\ pc' = [pc EXCEPT ![w] =
                                     IF chunks = << >> THEN "st_save" ELSE "st_chunk"]
                    ELSE /\ st_fail(w, TRUE, <<"commit failed">>)
                         /\ UNCHANGED tasks
    /\ UNCHANGED <<queue_high, queue_low, sent, videos, blobs, task_json, popped>>

\* One pass of the loop over the chunks: the chat-completion call for chunk idx
\* and json.loads of its answer; any exception is re-raised as HTTPException.
ST_Chunk(w) ==
    /\ pc[w] = "st_chunk"
    /\ \E response \in ModelResponses(loc[w].idx) \cup
                       (IF env.points_optional THEN {WithoutPoints(loc[w].idx)} ELSE {}) :
         /\ run' = [run EXCEPT
               ![w].calls = @ + 1,
               ![w].asked = Append(@, loc[w].chunks[loc[w].idx]),
               ![w].answers = IF response.kind = "json" THEN Append(@, response) ELSE @,
               ![w].bad_at = IF response.kind = "malformed" THEN loc[w].idx ELSE @]
         /\ IF response.kind = "json"
            THEN /\ loc' = [loc EXCEPT
                       ![w].summaries = Append(@, response.summary),
                       ![w].points_list = Append(@, response.points),
                       ![w].idx = @ + 1]
                 /\ pc' = [pc EXCEPT ![w] =
                             IF loc[w].idx = Len(loc[w].chunks) THEN "st_save" ELSE "st_chunk"]
            ELSE st_fail(w, TRUE, <<"HTTPException">>)
    /\ UNCHANGED <<queue_high, queue_low, sent, videos, tasks, blobs, task_json,
                   chain, sessions, popped>>
    /\ UNCHANGED <<faults, env, called, taken>>

\* The summaries and points are joined, set on the Video row and committed.
ST_Save(w) ==
    /\ pc[w] = "st_save"
    /\ \E committed \in CommitOutcomes :
         /\ commit(committed)
         /\ UNCHANGED <<env, called, taken>>
         /\ IF committed
            THEN /\ videos' = [videos EXCEPT
                       ![loc[w].video].summary_text =
                           flushed(@, loc[w].loaded[1], join(loc[w].summaries, <<"\n", "\n">>)),
                       ![loc[w].video].final_points =
                           flushed(@, loc[w].loaded[2], join(loc[w].points_list, <<"\n">>))]
                 /\ pc' = [pc EXCEPT ![w] = "st_complete"]
                 /\ UNCHANGED loc
            ELSE /\ st_fail(w, TRUE, <<"commit failed">>)
                 /\ UNCHANGED videos
    /\ UNCHANGED <<queue_high, queue_low, sent, tasks, blobs, task_json, chain,
                   sessions, run, popped>>

\* db_task.status = "COMPLETED" is committed; finally: session.close(); return.
ST_Complete(w) ==
    /\ pc[w] = "st_complete"
    /\ \E committed \in CommitOutcomes :
         /\ commit(committed)
         /\ UNCHANGED <<env, called, taken>>
         /\ IF committed
            THEN /\ tasks' = ended([tasks EXCEPT ![loc[w].db_task].status = "COMPLETED"], w)
                 /\ st_return(w, "ok")
                 /\ sessions' = [sessions EXCEPT ![w] = @ - 1]
            ELSE /\ st_fail(w, TRUE, <<"commit failed">>)
                 /\ UNCHANGED <<tasks, chain, run, sessions>>
    /\ UNCHANGED <<queue_high, queue_low, sent, videos, blobs, task_json, popped>>

\* except: session.rollback(); a FAILED row carrying str(e) is added and
\* committed.  The commit raises when no Video row was found (video_id is None)
\* and the exception then leaves the function; finally: session.close().
ST_Except(w) ==
    /\ pc[w] = "st_except"
    /\ LET video_pk == IF loc[w].db_video THEN loc[w].video ELSE NoId IN
       \E committed \in CommitOutcomes :
         /\ commit(committed)
         /\ UNCHANGED <<env, called, taken>>
         /\ IF committed /\ insertable(video_pk)
            THEN /\ tasks' = ended(Append(tasks,
                       DBTask(video_pk, "SUMMARIZE", "FAILED", loc[w].e, w)), w)
                 /\ st_return(w, "failed_returned")
            ELSE /\ tasks' = ended(tasks, w)
                 /\ st_raise(w, run[w].empty_seen)
    /\ sessions' = [sessions EXCEPT ![w] = @ - 1]
    /\ UNCHANGED <<queue_high, queue_low, sent, videos, blobs, task_json, popped>>

----------------------------------------------------------------------------
(* The system *)

NoVideo ==
    [audio_url |-> NULL, transcript_text |-> NULL,
     summary_text |-> NULL, final_points |-> NULL]

\* The Video row as app.py inserts it: no audio, transcript or summary yet.
\* The audio of the video is at most 20 MB (AudioInit is the other case).
Init ==
    /\ queue_high = << >>
    /\ queue_low = << >>
    /\ sent = 0
    /\ videos = [v \in ExistingVideos |-> NoVideo]
    /\ blobs = {}
    /\ tasks = << >>
    /\ pc = [w \in Workers |-> IF w \in Started THEN "brpop" ELSE "off"]
    /\ task_json = [w \in Workers |-> NoTask]
    /\ chain = [w \in Workers |-> NoChain]
    /\ loc = [w \in Workers |-> NoLoc]
    /\ sessions = [w \in Workers |-> 0]
    /\ run = [w \in Workers |-> NoRun]
    /\ popped = [w \in Workers |-> NoPop]
    /\ env \in [openai : BOOLEAN, azure_openai : BOOLEAN, over_20mb : {FALSE},
                points_optional : {FALSE}]
    /\ faults = 0
    /\ called = NotCalled
    /\ taken = [n \in 1..MaxEnqueue |-> 0]

Producer ==
    \/ \E name \in TaskNames, priority \in Priorities, arg \in VideoRefs :
         add_task(name, priority, arg) /\ UNCHANGED called
    \/ \E key \in {"task_queue_high", "task_queue_low"} : ForeignPush(key)

Worker(w) ==
    \/ Dequeue(w)
    \/ Timeout(w)
    \/ Wake(w)
    \/ Dispatch(w)
    \/ WorkerCatch(w)
    \/ Loop(w)
    \/ DA_Task(w)
    \/ DA_Fetch(w)
    \/ DA_Video(w)
    \/ DA_Complete(w)
    \/ PC_Read(w)
    \/ TA_Start(w)
    \/ TA_Audio(w)
    \/ TA_Video(w)
    \/ TA_Complete(w)
    \/ ST_Start(w)
    \/ ST_Chunk(w)
    \/ ST_Save(w)
    \/ ST_Complete(w)
    \/ ST_Except(w)

Next == Producer \/ \E w \in Workers : Worker(w)

Spec == Init /\ [][Next]_vars

\* The same producer with its calls of add_task observed: the priority argument
\* of each call is kept until the next operation on the lists.
ObservedProducer ==
    \/ \E name \in TaskNames, priority \in Priorities, arg \in VideoRefs :
         add_task(name, priority, arg) /\ called' = priority
    \/ \E key \in {"task_queue_high", "task_queue_low"} : ForeignPush(key)

EnqueueNext == ObservedProducer \/ \E w \in Workers : Worker(w)

EnqueueSpec == Init /\ [][EnqueueNext]_vars

\* The scheduler runs every started worker process: a worker that can take a
\* step eventually takes one.
FairSpec == Spec /\ \A w \in Started : WF_vars(Worker(w))

\* The deployment with every worker process started against the same two lists,
\* all credentials configured and a database that accepts every commit.
PoolInit ==
    /\ queue_high = << >>
    /\ queue_low = << >>
    /\ sent = 0
    /\ videos = [v \in ExistingVideos |-> NoVideo]
    /\ blobs = {}
    /\ tasks = << >>
    /\ pc = [w \in Workers |-> "brpop"]
    /\ task_json = [w \in Workers |-> NoTask]
    /\ chain = [w \in Workers |-> NoChain]
    /\ loc = [w \in Workers |-> NoLoc]
    /\ sessions = [w \in Workers |-> 0]
    /\ run = [w \in Workers |-> NoRun]
    /\ popped = [w \in Workers |-> NoPop]
    /\ env = [openai |-> TRUE, azure_openai |-> TRUE, over_20mb |-> FALSE,
              points_optional |-> FALSE]
    /\ faults = MaxCommitFaults
    /\ called = NotCalled
    /\ taken = [n \in 1..MaxEnqueue |-> 0]

PoolSpec == PoolInit /\ [][Next]_vars

\* A video whose audio is over 20 MB, with a process_chain_tasks payload for it
\* waiting on the high list.
AudioInit ==
    /\ queue_high = <<json_dumps("process_chain_tasks", 1, 1)>>
    /\ queue_low = << >>
    /\ sent = 1
    /\ called = NotCalled
    /\ videos = [v \in ExistingVideos |-> NoVideo]
    /\ blobs = {}
    /\ tasks = << >>
    /\ pc = [w \in Workers |-> IF w \in Started THEN "brpop" ELSE "off"]
    /\ task_json = [w \in Workers |-> NoTask]
    /\ chain = [w \in Workers |-> NoChain]
    /\ loc = [w \in Workers |-> NoLoc]
    /\ sessions = [w \in Workers |-> 0]
    /\ run = [w \in Workers |-> NoRun]
    /\ popped = [w \in Workers |-> NoPop]
    /\ env \in [openai : BOOLEAN, azure_openai : BOOLEAN, over_20mb : {TRUE},
                points_optional : {FALSE}]
    /\ faults \in 0..MaxCommitFaults
    /\ taken = [n \in 1..MaxEnqueue |-> 0]

\* The worker handling that request: every step of the loop and of the chain.
AudioNext == \E w \in Started : Worker(w) \/ TA_Segment(w)

AudioSpec == AudioInit /\ [][AudioNext]_vars

\* Characters of the short caption texts.
Alphabet == {"a", " ", "\n"}

ShortTexts == UNION {[1..n -> Alphabet] : n \in 1..MaxTextLen}

\* A 2500-character text without a blank line, and three paragraphs of 600
\* characters with a blank line between them.
LongTexts ==
    { [i \in 1..2500 |-> "a"],
      [i \in 1..600 |-> "a"] \o separator \o [i \in 1..600 |-> "b"]
          \o separator \o [i \in 1..600 |-> "a"] }

\* What a request may find in the summary columns of its Video row: nothing,
\* or the result of an earlier request for the same video.
EarlierSummaries == {<<NULL, NULL>>, <<<<"o">>, <<"o">>>>}

\* summarize_youtube found captions: it stored them as transcript_text of the
\* Video row (new, or left by an earlier request) and called
\* add_task("summarize_text", "high", youtube_video_id).
CaptionInit ==
    /\ \E subtitle_text \in ShortTexts \cup LongTexts, earlier \in EarlierSummaries :
          videos = [v \in ExistingVideos |->
                       [NoVideo EXCEPT !.transcript_text = subtitle_text,
                                       !.summary_text = earlier[1],
                                       !.final_points = earlier[2]]]
    /\ queue_high = <<json_dumps("summarize_text", 1, 1)>>
    /\ queue_low = << >>
    /\ sent = 1
    /\ called = NotCalled
    /\ blobs = {}
    /\ tasks = << >>
    /\ pc = [w \in Workers |-> IF w \in Started THEN "brpop" ELSE "off"]
    /\ task_json = [w \in Workers |-> NoTask]
    /\ chain = [w \in Workers |-> NoChain]
    /\ loc = [w \in Workers |-> NoLoc]
    /\ sessions = [w \in Workers |-> 0]
    /\ run = [w \in Workers |-> NoRun]
    /\ popped = [w \in Workers |-> NoPop]
    /\ env \in [openai : BOOLEAN, azure_openai : BOOLEAN, over_20mb : {FALSE},
                points_optional : {FALSE}]
    /\ faults = 0
    /\ taken = [n \in 1..MaxEnqueue |-> 0]

\* The worker handling that request: the steps of the loop and of summarize_text.
CaptionNext ==
    \E w \in Started :
        \/ Dequeue(w)
        \/ Timeout(w)
        \/ Wake(w)
        \/ Dispatch(w)
        \/ WorkerCatch(w)
        \/ Loop(w)
        \/ ST_Start(w)
        \/ ST_Chunk(w)
        \/ ST_Save(w)
        \/ ST_Complete(w)
        \/ ST_Except(w)

CaptionSpec == CaptionInit /\ [][CaptionNext]_vars

\* The same request made twice for one video, both payloads waiting on the high
\* list: summarize_text twice for a video with captions, or process_chain_tasks
\* twice for a video without.  The database accepts every commit.
TwiceInit ==
    /\ \E name \in {"summarize_text", "process_chain_tasks"} :
          /\ queue_high = <<json_dumps(name, 1, 1), json_dumps(name, 1, 2)>>
          /\ \E subtitle_text \in ShortTexts \cup LongTexts :
                videos = [v \in ExistingVideos |->
                             [NoVideo EXCEPT !.transcript_text =
                                 IF name = "summarize_text" THEN subtitle_text ELSE NULL]]
    /\ queue_low = << >>
    /\ sent = 2
    /\ called = NotCalled
    /\ blobs = {}
    /\ tasks = << >>
    /\ pc = [w \in Workers |-> IF w \in Started THEN "brpop" ELSE "off"]
    /\ task_json = [w \in Workers |-> NoTask]
    /\ chain = [w \in Workers |-> NoChain]
    /\ loc = [w \in Workers |-> NoLoc]
    /\ sessions = [w \in Workers |-> 0]
    /\ run = [w \in Workers |-> NoRun]
    /\ popped = [w \in Workers |-> NoPop]
    /\ env \in [openai : BOOLEAN, azure_openai : BOOLEAN, over_20mb : BOOLEAN,
                points_optional : {FALSE}]
    /\ faults = MaxCommitFaults
    /\ taken = [n \in 1..MaxEnqueue |-> 0]

TwiceSpec == TwiceInit /\ [][AudioNext]_vars

\* Producers that never stop.  add_task is called again and again for videos
\* that have no row (and so leave no row in the tasks table).
BusyProducer ==
    \E name \in TaskNames, priority \in Priorities, arg \in VideoRefs \ ExistingVideos :
        add_task(name, priority, arg) /\ UNCHANGED called

\* The payload pushed last has been popped and handled: its number is free for
\* the next call of add_task, so that the calls go on without end while the
\* numbers in use stay within MaxEnqueue.
Forget ==
    /\ sent > 0
    /\ \A i \in 1..Len(queue_high) : queue_high[i].seq # sent
    /\ \A i \in 1..Len(queue_low) : queue_low[i].seq # sent
    /\ \A w \in Workers : task_json[w].seq # sent /\ popped[w].seq # sent
    /\ sent' = sent - 1
    /\ taken' = [taken EXCEPT ![sent] = 0]
    /\ UNCHANGED <<queue_high, queue_low, videos, tasks, blobs, pc, task_json,
                   chain, loc, sessions, run, popped, env, faults, called>>

\* The steps a worker takes on these payloads: the loop, and the executors as
\* far as they get for a video without a row.
BusyWorker(w) ==
    \/ Dequeue(w)
    \/ Timeout(w)
    \/ Wake(w)
    \/ Dispatch(w)
    \/ WorkerCatch(w)
    \/ Loop(w)
    \/ DA_Task(w)
    \/ PC_Read(w)
    \/ ST_Start(w)
    \/ ST_Except(w)

BusyNext == BusyProducer \/ Forget \/ \E w \in Started : BusyWorker(w)

\* The started worker keeps running: when it can take a step it eventually does.
BusySpec == Init /\ [][BusyNext]_vars /\ \A w \in Started : WF_vars(BusyWorker(w))

\* An earlier summary of the video that came without points.
SummaryWithoutPoints == <<<<"o">>, << >>>>

\* Two requests for one video with captions, made at about the same time: two
\* summarize_text payloads wait on the high list and every worker process is
\* started.  The row holds no summary yet, or an earlier one.  The database
\* accepts every commit.
RaceInit ==
    /\ \E earlier \in {<<NULL, NULL>>, SummaryWithoutPoints} :
          videos = [v \in ExistingVideos |->
                       [NoVideo EXCEPT !.transcript_text = <<"a">>,
                                       !.summary_text = earlier[1],
                                       !.final_points = earlier[2]]]
    /\ queue_high = <<json_dumps("summarize_text", 1, 1), json_dumps("summarize_text", 1, 2)>>
    /\ queue_low = << >>
    /\ sent = 2
    /\ called = NotCalled
    /\ blobs = {}
    /\ tasks = << >>
    /\ pc = [w \in Workers |-> "brpop"]
    /\ task_json = [w \in Workers |-> NoTask]
    /\ chain = [w \in Workers |-> NoChain]
    /\ loc = [w \in Workers |-> NoLoc]
    /\ sessions = [w \in Workers |-> 0]
    /\ run = [w \in Workers |-> NoRun]
    /\ popped = [w \in Workers |-> NoPop]
    /\ env \in [openai : {TRUE}, azure_openai : BOOLEAN, over_20mb : {FALSE},
                points_optional : {TRUE}]
    /\ faults = MaxCommitFaults
    /\ taken = [n \in 1..MaxEnqueue |-> 0]

\* The workers handling the two requests: the steps of the loop and of
\* summarize_text, in any interleaving.
RaceNext ==
    \E w \in Workers :
        \/ Dequeue(w)
        \/ Timeout(w)
        \/ Wake(w)
        \/ Dispatch(w)
        \/ WorkerCatch(w)
        \/ Loop(w)
        \/ ST_Start(w)
        \/ ST_Chunk(w)
        \/ ST_Save(w)
        \/ ST_Complete(w)
        \/ ST_Except(w)

RaceSpec == RaceInit /\ [][RaceNext]_vars

----------------------------------------------------------------------------
(* Properties *)

Failed == {"failed_returned", "failed_raised"}

\* Rows of the tasks table for a video and a stage kind with a given status.
rows_of(video_id, task_type, status) ==
    {i \in 1..Len(tasks) : /\ tasks[i].video_id = video_id
                           /\ tasks[i].task_type = task_type
                           /\ tasks[i].status = status}

\* C1: strict priority.  Whenever brpop hands a worker a payload while the high
\* list is non-empty, the payload comes from the high list; so a payload is
\* taken from the low list only when no high payload is waiting, and of the
\* payloads waiting together every high one is returned before any low one.
C1_StrictPriority ==
    \A w \in Started :
        popped[w].seq # 0 =>
            /\ popped[w].high_len > 0 => popped[w].key = "task_queue_high"
            /\ popped[w].key = "task_queue_low" => popped[w].high_len = 0

\* C1 witness: a worker holds a payload taken from the high list although a
\* payload pushed earlier is still waiting on the low list.
C1_Witness ==
    \E w \in Started :
        /\ pc[w] = "dispatch"
        /\ popped[w].key = "task_queue_high"
        /\ \E i \in 1..Len(queue_low) : queue_low[i].seq < popped[w].seq

\* C2: FIFO within a priority class.  Of two payloads add_task pushed on the
\* same list, the one pushed first is returned first: a pop never leaves behind,
\* on the list it took from, a payload pushed before the one it returns.
C2_FifoWithinClass ==
    \A w \in Started :
        popped[w].seq # 0 /\ popped[w].valid =>
            \A s \in popped[w].left_behind : s > popped[w].seq

\* C3: in a run of process_chain_tasks in which download_audio failed, neither
\* transcribe_audio nor summarize_text is invoked.
C3_FetchFailureStopsChain ==
    \A w \in Started :
        run[w].chain /\ run[w].fetch \in Failed =>
            run[w].transcribe = "none" /\ run[w].summarize = "none"

\* C4: in a run of process_chain_tasks, summarize_text is invoked only if
\* transcribe_audio was invoked and succeeded in that run.
C4_SummarizeOnlyAfterTranscribe ==
    \A w \in Started :
        run[w].chain /\ run[w].summarize # "none" => run[w].transcribe = "ok"

\* C5: a stage executor that fails surfaces the failure to its caller: no
\* invocation that failed has returned normally.
C5_FailureSurfaces ==
    \A w \in Started :
        /\ run[w].fetch # "failed_returned"
        /\ run[w].transcribe # "failed_returned"
        /\ run[w].summarize # "failed_returned"

\* C6: a stage invocation that failed after it had started leaves a FAILED row
\* with an error message for its video and stage kind.  Stated for invocations
\* on an existing video in behaviours without a database fault, where every
\* failed invocation did start and could write its row.
C6_FailedRowPersisted ==
    \A w \in Started :
        faults = 0 /\ run[w].video \in DOMAIN videos /\ pc[w] \in {"handled", "caught"} =>
            /\ run[w].fetch \in Failed =>
                 \E i \in rows_of(run[w].video, "DOWNLOAD_AUDIO", "FAILED") :
                     truthy(tasks[i].error_message)
            /\ run[w].transcribe \in Failed /\ env.openai =>
                 \E i \in rows_of(run[w].video, "TRANSCRIBE", "FAILED") :
                     truthy(tasks[i].error_message)
            /\ run[w].summarize \in Failed /\ env.azure_openai =>
                 \E i \in rows_of(run[w].video, "SUMMARIZE", "FAILED") :
                     truthy(tasks[i].error_message)

\* C7: no row of the tasks table is IN_PROGRESS once the invocation that
\* inserted it has ended.
C7_NoInProgressAfterEnd ==
    \A i \in 1..Len(tasks) : tasks[i].status = "IN_PROGRESS" => tasks[i].by # "-"

\* C8: when summarize_text finds the Video row with a transcript_text that is
\* None or empty, the invocation fails and issues no chat-completion call.
C8_EmptyTranscriptFailsFast ==
    \A w \in Started :
        run[w].empty_seen =>
            /\ run[w].calls = 0
            /\ \/ pc[w] = "st_except" /\ run[w].summarize = "running"
               \/ pc[w] \in {"handled", "caught"} /\ run[w].summarize \in Failed

\* C8 witness: summarize_text has failed on a transcript that is empty (not
\* None), written by an earlier transcription, and has recorded the failure.
C8_Witness ==
    \E w \in Started :
        /\ run[w].empty_seen
        /\ run[w].summarize = "failed_returned"
        /\ videos[run[w].video].transcript_text = << >>
        /\ rows_of(run[w].video, "SUMMARIZE", "FAILED") # {}

\* C9: a payload whose name has no entry in task_mapping is dropped: the step
\* that handles it starts no executor and changes no table and no list, and
\* the worker's next step takes it back to brpop, again changing nothing.
C9_UnknownTaskDropped ==
    [][\A w \in Started :
          /\ ( /\ pc[w] = "dispatch"
               /\ pc'[w] # "dispatch"
               /\ task_json[w].valid
               /\ task_json[w].task \notin {"summarize_text", "process_chain_tasks"} )
             => /\ pc'[w] = "handled"
                /\ run'[w].fetch = "none"
                /\ run'[w].transcribe = "none"
                /\ run'[w].summarize = "none"
                /\ <<tasks, videos, blobs, queue_high, queue_low>>' =
                       <<tasks, videos, blobs, queue_high, queue_low>>
          /\ ( /\ pc[w] = "handled"
               /\ pc'[w] # "handled"
               /\ run[w].handled = "unknown" )
             => /\ pc'[w] = "brpop"
                /\ <<tasks, videos, blobs, queue_high, queue_low>>' =
                       <<tasks, videos, blobs, queue_high, queue_low>>
      ]_vars

\* C9 witness: the worker has dropped an unknown payload (the download_audio
\* task) and another payload is waiting for its next brpop.
C9_Witness ==
    \E w \in Started :
        /\ pc[w] = "handled"
        /\ run[w].handled = "unknown"
        /\ tasks = << >>
        /\ queue_high # << >> \/ queue_low # << >>

\* C10: the worker never halts because of a task: whatever it did with a
\* payload, and after every timeout, it is back at brpop again and again.
C10_WorkerKeepsConsuming == \A w \in Started : []<>(pc[w] = "brpop")

\* C10 witness: after an exception left an executor (the session opened by
\* transcribe_audio was never closed), the worker has taken a later payload.
C10_Witness ==
    \E w \in Started :
        /\ sessions[w] > 0
        /\ pc[w] = "dispatch"
        /\ run[w].handled = "none"

\* C11: every name the producer hands to add_task has an entry in task_mapping:
\* a payload written by add_task that a worker is about to dispatch names an
\* executor, so it is never dropped as unknown.
C11_MappingCoversEnqueued ==
    \A w \in Started :
        pc[w] = "dispatch" /\ task_json[w].valid /\ task_json[w].task \in TaskNames
            => task_json[w].task \in task_mapping

\* The list is the old list with exactly one payload, written by add_task as its
\* n-th push, appended at the tail.
appended_one(old, new, n) ==
    /\ Len(new) = Len(old) + 1
    /\ SubSeq(new, 1, Len(old)) = old
    /\ new[Len(new)].valid
    /\ new[Len(new)].seq = n

\* C12: add_task never drops.  Every call appends exactly one payload to exactly
\* one list, the high list if and only if the priority argument is "high" in
\* any letter case and the low list otherwise, and leaves the other list and
\* the payloads already queued as they were.
C12_AddTaskAppendsOne ==
    [][called' # NotCalled /\ sent' # sent =>
          IF called' \in {"high", "HIGH"}
          THEN appended_one(queue_high, queue_high', sent') /\ queue_low' = queue_low
          ELSE appended_one(queue_low, queue_low', sent') /\ queue_high' = queue_high
      ]_vars

\* C12 witness: add_task was called with priority "HIGH" while an earlier payload
\* was waiting on the high list; its payload is now the tail of that list.
C12_Witness ==
    /\ called = "HIGH"
    /\ Len(queue_high) = 2
    /\ queue_high[2].seq = sent
    /\ queue_high[1].seq < sent

\* The pushes whose payload is waiting on one of the two lists.
queued ==
    {queue_high[i].seq : i \in 1..Len(queue_high)} \cup
    {queue_low[i].seq : i \in 1..Len(queue_low)}

\* C13: at-most-once dispatch with competing consumers.  With all workers
\* running against the same two lists, brpop returns every pushed payload at
\* most once in total, no two workers hold the same payload, a payload is held
\* only until the single dispatch that consumes it, and a payload that was
\* taken is never on a list again, whatever became of its execution.
C13_AtMostOnce ==
    /\ \A n \in 1..MaxEnqueue : taken[n] <= 1
    /\ \A n \in 1..MaxEnqueue : taken[n] >= 1 => n \notin queued
    /\ \A w, v \in Workers :
          w # v /\ task_json[w].seq # 0 => task_json[v].seq # task_json[w].seq
    /\ \A w \in Workers : task_json[w].seq # 0 => pc[w] = "dispatch"

\* C13 witness: two payloads were pushed; one worker took one and its executor
\* raised, the other worker took the other one, and both lists are empty.
C13_Witness ==
    \E w, v \in Workers :
        /\ w # v
        /\ pc[w] = "caught" /\ run[w].handled = "exception"
        /\ pc[v] = "dispatch"
        /\ taken[1] = 1 /\ taken[2] = 1
        /\ queued = {}

RECURSIVE separated(_, _)
\* The parts in order, with sep between each two neighbours.
separated(parts, sep) ==
    IF parts = << >> THEN << >>
    ELSE IF Len(parts) = 1 THEN parts[1]
    ELSE separated(SubSeq(parts, 1, Len(parts) - 1), sep) \o sep \o parts[Len(parts)]

\* C14: an invocation of summarize_text that succeeded on a transcript that
\* splits into k chunks made exactly k chat-completion calls, one per chunk in
\* chunk order, and wrote summary_text as the k summaries in that order with a
\* blank line between them and final_points as the k points with a newline
\* between them.
C14_OneCallPerChunkJoined ==
    \A w \in Started :
        pc[w] = "handled" /\ run[w].summarize = "ok" =>
            LET video == run[w].video
                chunks == split_text(videos[video].transcript_text)
                answers == run[w].answers
            IN /\ run[w].calls = Len(chunks)
               /\ run[w].asked = chunks
               /\ Len(answers) = Len(chunks)
               /\ videos[video].summary_text =
                      separated([i \in 1..Len(answers) |-> answers[i].summary],
                                <<"\n", "\n">>)
               /\ videos[video].final_points =
                      separated([i \in 1..Len(answers) |-> answers[i].points], <<"\n">>)

\* C14 witness: summarize_text succeeded on a transcript of three chunks, and
\* the model did not give the same answer for the first two.
C14_Witness ==
    \E w \in Started :
        /\ pc[w] = "handled"
        /\ run[w].summarize = "ok"
        /\ run[w].calls = 3
        /\ run[w].answers[1] # run[w].answers[2]

\* C15: when the answer for chunk i cannot be parsed, the invocation fails, no
\* call is made for a later chunk, and summary_text and final_points keep the
\* values they had when the invocation started.
C15_MalformedFailsWhole ==
    \A w \in Started :
        run[w].bad_at > 0 =>
            /\ run[w].calls = run[w].bad_at
            /\ \/ pc[w] = "st_except" /\ run[w].summarize = "running"
               \/ pc[w] \in {"handled", "caught"} /\ run[w].summarize \in Failed
            /\ <<videos[run[w].video].summary_text, videos[run[w].video].final_points>>
                   = run[w].before

\* C15 witness: the answer for the second chunk could not be parsed; the
\* invocation has ended as failed, the summary of the first chunk is gone and
\* the Video row still holds the summary of an earlier request.
C15_Witness ==
    \E w \in Started :
        /\ run[w].bad_at = 2
        /\ Len(run[w].answers) = 1
        /\ pc[w] = "handled"
        /\ run[w].summarize = "failed_returned"
        /\ videos[run[w].video].summary_text = <<"o">>

\* C16: the chunks of every transcript all have length chunk_size except
\* possibly the last, consecutive chunks share exactly chunk_overlap characters,
\* a text shorter than chunk_size gives one chunk equal to the text, and a text
\* of 2500 characters gives the chunks 0-1000, 900-1900 and 1800-2500.
C16_FixedWindowChunks ==
    \A w \in Started :
        pc[w] \in {"st_chunk", "st_save"} =>
            LET text == videos[loc[w].video].transcript_text
                chunks == loc[w].chunks
            IN /\ \A i \in 1..(Len(chunks) - 1) :
                     /\ Len(chunks[i]) = chunk_size
                     /\ SubSeq(chunks[i], chunk_size - chunk_overlap + 1, chunk_size)
                            = SubSeq(chunks[i + 1], 1, chunk_overlap)
               /\ Len(text) < chunk_size => chunks = <<text>>
               /\ Len(text) = 2500 =>
                     chunks = <<SubSeq(text, 1, 1000), SubSeq(text, 901, 1900),
                                SubSeq(text, 1801, 2500)>>

\* C17: when transcribe_audio has cut the audio into segments, it has
\* transcribed each segment once, in temporal order, and the transcript_text
\* it wrote to the Video row, in a single write after the last segment, is the
\* segments' transcriptions in that order with a newline between them.
C17_SegmentsJoinedInOrder ==
    \A w \in Started :
        /\ pc[w] = "ta_complete"
        /\ loc[w].split_files # << >>
        /\ loc[w].video \in DOMAIN videos
        => /\ Len(run[w].heard) = Len(loc[w].split_files)
           /\ \A j \in 1..Len(run[w].heard) : run[w].heard[j].segment = j - 1
           /\ run[w].writes = 1
           /\ videos[loc[w].video].transcript_text =
                  separated([j \in 1..Len(run[w].heard) |-> run[w].heard[j].text],
                            <<"\n">>)

\* C18: every session an executor or process_chain_tasks opened is closed when
\* the invocation ends, however it ends: a worker that is not inside an
\* executor holds no open session.
C18_SessionsClosed ==
    \A w \in Started :
        pc[w] \in {"brpop", "sleep", "dispatch", "handled", "caught"} => sessions[w] = 0

\* process_chain_tasks has logged "Completed" and returned to the worker: the
\* run went all the way through the call of summarize_text.
reports_completed(w) ==
    run[w].chain /\ pc[w] = "handled" /\ run[w].summarize # "none"

\* C19: a run of process_chain_tasks reports completion only if summarize_text
\* succeeded in it, and never when one of its stages failed.
C19_DoneOnlyAfterSuccess ==
    \A w \in Started :
        reports_completed(w) =>
            /\ run[w].summarize = "ok"
            /\ run[w].fetch \notin Failed
            /\ run[w].transcribe \notin Failed

\* C20: bounded retry.  For one payload every stage executor is attempted at
\* most twice, and a stage that failed in all its attempts is recorded FAILED
\* (stated, as in C6, for an existing video and a database without faults).
C20_BoundedRetryThenFailed ==
    \A w \in Started :
        /\ run[w].attempts.fetch <= 2
        /\ run[w].attempts.transcribe <= 2
        /\ run[w].attempts.summarize <= 2
        /\ faults = 0 /\ run[w].video \in DOMAIN videos /\ pc[w] \in {"handled", "caught"} =>
              /\ run[w].fetch \in Failed =>
                   rows_of(run[w].video, "DOWNLOAD_AUDIO", "FAILED") # {}
              /\ run[w].transcribe \in Failed /\ env.openai =>
                   rows_of(run[w].video, "TRANSCRIBE", "FAILED") # {}
              /\ run[w].summarize \in Failed /\ env.azure_openai =>
                   rows_of(run[w].video, "SUMMARIZE", "FAILED") # {}

\* The stages of the pipeline, as run keeps their state.
Stages == {"fetch", "transcribe", "summarize"}

\* The rows the running invocation of w has added so far.
rows_by(w) == {i \in 1..Len(tasks) : tasks[i].by = w}

\* C21: one Task Record per stage attempt.  When an invocation of a stage
\* executor ends, by success or by failure, it has added exactly one row to the
\* tasks table (stated for an existing video, the stage's credentials set and a
\* database without faults).
C21_OneRowPerAttempt ==
    [][\A w \in Started : \A stage \in Stages :
          /\ run[w][stage] = "running"
          /\ run'[w][stage] # "running"
          /\ faults' = 0
          /\ run[w].video \in DOMAIN videos
          /\ stage = "transcribe" => env.openai
          /\ stage = "summarize" => env.azure_openai
          => Cardinality(rows_by(w)) + Len(tasks') - Len(tasks) = 1
      ]_vars

\* C22: stage idempotence.  An invocation of a stage that finds in the Video
\* row the output of an earlier invocation, and whose collaborators return what
\* they returned then, leaves the row as it found it: audio_url changes only
\* from None, transcript_text only from None or when the text transcribed now
\* differs from the stored one, and summary_text and final_points only from
\* None or when the transcript has been written since by transcribe_audio.
C22_StagesIdempotent ==
    [][\A v \in DOMAIN videos :
          /\ videos'[v].audio_url # videos[v].audio_url =>
                videos[v].audio_url = NULL
          /\ videos'[v].transcript_text # videos[v].transcript_text =>
                \/ videos[v].transcript_text = NULL
                \/ \E w \in Started :
                      /\ pc[w] = "ta_video"
                      /\ loc[w].video = v
                      /\ loc[w].transcript_text # videos[v].transcript_text
          /\ \/ videos'[v].summary_text # videos[v].summary_text
             \/ videos'[v].final_points # videos[v].final_points
             => \/ videos[v].summary_text = NULL /\ videos[v].final_points = NULL
                \/ rows_of(v, "TRANSCRIBE", "COMPLETED") # {}
      ]_vars

\* C22 witness: process_chain_tasks has run twice for the video and every stage
\* has completed both times; the row holds what the first run left.
C22_Witness ==
    /\ \A task_type \in {"DOWNLOAD_AUDIO", "TRANSCRIBE", "SUMMARIZE"} :
          Cardinality(rows_of(1, task_type, "COMPLETED")) = 2
    /\ videos[1].audio_url = <<"blob_url">>
    /\ videos[1].transcript_text = <<"a", "b">>
    /\ videos[1].summary_text = <<"s", "1">>
    /\ \A w \in Started : pc[w] = "handled"

\* A stage invocation that has returned or raised.
Ended == {"ok"} \cup Failed

\* C23: within one run of process_chain_tasks the stages are invoked in the
\* order download_audio, transcribe_audio, summarize_text, each at most once,
\* and a stage starts only when the stage before it has returned: while a stage
\* executes, the stages before it have ended (or were skipped) and the stages
\* after it have not started.
C23_StagesInOrderOnce ==
    \A w \in Started :
        run[w].chain =>
            /\ run[w].attempts.fetch <= 1
            /\ run[w].attempts.transcribe <= 1
            /\ run[w].attempts.summarize <= 1
            /\ pc[w] \in {"da_task", "da_fetch", "da_video", "da_complete"} =>
                   /\ run[w].fetch = "running"
                   /\ run[w].transcribe = "none"
                   /\ run[w].summarize = "none"
            /\ pc[w] = "pc_read" =>
                   /\ run[w].fetch \in Ended
                   /\ run[w].transcribe = "none"
                   /\ run[w].summarize = "none"
            /\ pc[w] \in {"ta_start", "ta_audio", "ta_segment", "ta_video", "ta_complete"} =>
                   /\ run[w].fetch \in Ended
                   /\ run[w].transcribe = "running"
                   /\ run[w].summarize = "none"
            /\ pc[w] \in {"st_start", "st_chunk", "st_save", "st_complete", "st_except"} =>
                   /\ run[w].fetch \in Ended
                   /\ run[w].transcribe \in Ended \cup {"none"}
                   /\ run[w].summarize = "running"
            /\ pc[w] \in {"handled", "caught"} =>
                   /\ run[w].fetch \in Ended
                   /\ run[w].transcribe # "running"
                   /\ run[w].summarize # "running"

\* C23 witness: a run of process_chain_tasks in which the three stages were
\* invoked, once each, and summarize_text is executing after the other two
\* have returned.
C23_Witness ==
    \E w \in Started :
        /\ run[w].chain
        /\ pc[w] = "st_chunk"
        /\ run[w].fetch = "ok"
        /\ run[w].transcribe = "ok"
        /\ run[w].attempts = [fetch |-> 1, transcribe |-> 1, summarize |-> 1]

\* C24: in a run of process_chain_tasks, transcribe_audio is invoked only when
\* the Video row read after download_audio holds an audio_url that is neither
\* None nor empty; when there is no Video row the run ends without invoking
\* transcribe_audio or summarize_text.
C24_TranscribeNeedsAudio ==
    \A w \in Started :
        run[w].chain =>
            /\ run[w].transcribe # "none" =>
                   /\ run[w].video \in DOMAIN videos
                   /\ videos[run[w].video].audio_url \notin {NULL, << >>}
            /\ run[w].video \notin DOMAIN videos =>
                   /\ run[w].transcribe = "none"
                   /\ run[w].summarize = "none"
                   /\ pc[w] \notin {"caught", "off"}

\* C24 witness: the download failed, the Video row read after it has no
\* audio_url, and the run has gone on to summarize_text without invoking
\* transcribe_audio.
C24_Witness ==
    \E w \in Started :
        /\ run[w].chain
        /\ run[w].fetch \in Failed
        /\ run[w].video \in DOMAIN videos
        /\ videos[run[w].video].audio_url = NULL
        /\ run[w].transcribe = "none"
        /\ run[w].summarize = "running"

\* The positions of a worker inside each stage executor.
InDownload == {"da_task", "da_fetch", "da_video", "da_complete"}
InTranscribe == {"ta_start", "ta_audio", "ta_segment", "ta_video", "ta_complete"}
InSummarize == {"st_start", "st_chunk", "st_save", "st_complete", "st_except"}

C26_FailedAttemptLeavesVideo ==
    \A v \in DOMAIN videos :
        /\ (/\ videos[v].audio_url # NULL
            /\ ~\E w \in Workers : pc[w] \in InDownload /\ loc[w].video = v)
              => rows_of(v, "DOWNLOAD_AUDIO", "COMPLETED") # {}
        /\ (/\ videos[v].transcript_text # NULL
            /\ ~\E w \in Workers : pc[w] \in InTranscribe /\ loc[w].video = v)
              => rows_of(v, "TRANSCRIBE", "COMPLETED") # {}

\* C27: a Task row becomes COMPLETED only when the invocation that inserted it
\* has persisted the stage's output on the Video row.  In the step that sets a
\* row COMPLETED the Video row exists and holds what this invocation produced:
\* the blob's url for DOWNLOAD_AUDIO, the transcription for TRANSCRIBE, the
\* joined summaries and points for SUMMARIZE.
C27_CompletedMeansPersisted ==
    [][\A i \in 1..Len(tasks) :
          (tasks[i].status # "COMPLETED" /\ tasks'[i].status = "COMPLETED") =>
              LET v == tasks[i].video_id
                  w == tasks[i].by
              IN /\ w \in Workers
                 /\ v \in DOMAIN videos
                 /\ tasks[i].task_type = "DOWNLOAD_AUDIO" =>
                        videos[v].audio_url = <<"blob_url">>
                 /\ tasks[i].task_type = "TRANSCRIBE" =>
                        /\ videos[v].transcript_text = loc[w].transcript_text
                        /\ run[w].writes = 1
                 /\ tasks[i].task_type = "SUMMARIZE" =>
                        /\ videos[v].summary_text = join(loc[w].summaries, <<"\n", "\n">>)
                        /\ videos[v].final_points = join(loc[w].points_list, <<"\n">>)
      ]_vars

\* C27 witness: a chain has completed its three stages for a video, whose row
\* holds the audio_url, the transcript and the summary.
C27_Witness ==
    \E v \in DOMAIN videos :
        /\ Cardinality(rows_of(v, "DOWNLOAD_AUDIO", "COMPLETED")) = 1
        /\ Cardinality(rows_of(v, "TRANSCRIBE", "COMPLETED")) = 1
        /\ Cardinality(rows_of(v, "SUMMARIZE", "COMPLETED")) = 1
        /\ videos[v].audio_url = <<"blob_url">>
        /\ videos[v].transcript_text = <<"a", "b">>
        /\ videos[v].summary_text = <<"s", "1">>
        /\ videos[v].final_points = <<"p", "1">>

\* C28: summarize_text invoked for a video that has no row issues no model call,
\* persists a FAILED row carrying the error message and returns to its caller
\* without raising.  Stated for invocations with the Azure credentials set, in
\* behaviours without a database fault.
C28_MissingVideoFailsCleanly ==
    \A w \in Started :
        (/\ env.azure_openai
         /\ faults = 0
         /\ run[w].video # NoId
         /\ run[w].video \notin DOMAIN videos
         /\ run[w].summarize \in Ended) =>
            /\ run[w].calls = 0
            /\ run[w].summarize = "failed_returned"
            /\ \E i \in 1..Len(tasks) :
                  /\ tasks[i].task_type = "SUMMARIZE"
                  /\ tasks[i].status = "FAILED"
                  /\ truthy(tasks[i].error_message)

\* C29: with a worker that keeps running and producers that keep calling
\* add_task, every payload on the high list is eventually popped from it.
C29_HighEventuallyDequeued ==
    \A n \in 1..MaxEnqueue :
        (\E i \in 1..Len(queue_high) : queue_high[i].seq = n)
            ~> (\A i \in 1..Len(queue_high) : queue_high[i].seq # n)

\* The summary and the points an invocation makes of the answers it has got.
pair_of(w) ==
    <<separated([i \in 1..Len(run[w].answers) |-> run[w].answers[i].summary], <<"\n", "\n">>),
      separated([i \in 1..Len(run[w].answers) |-> run[w].answers[i].points], <<"\n">>)>>

\* C30: under any interleaving of concurrent summarize_text invocations for one
\* video, the summary_text and final_points of the row come from one and the
\* same invocation.  While every worker is in, or just out of, a summarize_text
\* invocation for the video, the pair in the row is the pair one of them found
\* when it started, or the pair one of them has made of its answers.
C30_SummaryAndPointsTogether ==
    \A v \in DOMAIN videos :
        (\A w \in Workers :
            /\ pc[w] \in {"st_chunk", "st_save", "st_complete", "st_except", "handled"}
            /\ run[w].video = v
            /\ run[w].before # << >>) =>
                <<videos[v].summary_text, videos[v].final_points>> \in
                    {run[w].before : w \in Workers} \cup {pair_of(w) : w \in Workers}

====
